---- MODULE Spec2Model ----
(***************************************************************************)
(* Duty-status totals, recap windows and the logbook page of the truck     *)
(* HOS logbook frontend (LogbookSheet.tsx, LogbookPage.tsx), and its api   *)
(* client with the session (api/client.ts, auth/AuthContext.tsx).          *)
(*                                                                         *)
(* Time is counted in whole seconds, so an hour quantity h of the code is  *)
(* the integer h * 3600 here and all sums are exact.  A JavaScript NaN is  *)
(* the value NaN below; every arithmetic operator and comparison of the    *)
(* code is modelled by an operator that treats NaN as JavaScript does.     *)
(***************************************************************************)
EXTENDS Integers, Sequences, FiniteSets, TLC

VARIABLES plan, formByDate, hoursByDay, totalsByStatus, normalized, recapValues,
          perDayMiles, milesText, renderError, planResponse, drawn,
          localStorage, accessToken, defaultsAuthorization, pathname, requests,
          refreshInFlight, refreshCalls, issued, hrefAssigned, loggedOut,
          previousAccess

pageVars == <<plan, formByDate, hoursByDay, totalsByStatus, normalized, recapValues,
              perDayMiles, milesText, renderError, planResponse, drawn>>

authVars == <<localStorage, accessToken, defaultsAuthorization, pathname, requests,
              refreshInFlight, refreshCalls, issued, hrefAssigned, loggedOut,
              previousAccess>>

vars == <<pageVars, authVars>>

(***************************************************************************)
(* Bounds of the model.                                                    *)
(***************************************************************************)
MaxSegs == 2
MaxDays == 9
MaxTripDays == 3
MaxRemarks == 2
MaxRequests == 3
MaxTokens == 3

(***************************************************************************)
(* Numbers.                                                                *)
(***************************************************************************)
NaN == 0 - 999999999

HourSecs == 3600
MinSecs == 60
DaySecs == 24 * HourSecs

IsNaN(x) == x = NaN

Add(a, b) == IF IsNaN(a) \/ IsNaN(b) THEN NaN ELSE a + b
Sub(a, b) == IF IsNaN(a) \/ IsNaN(b) THEN NaN ELSE a - b
Lt(a, b) == ~IsNaN(a) /\ ~IsNaN(b) /\ a < b
Le(a, b) == ~IsNaN(a) /\ ~IsNaN(b) /\ a <= b
Gt(a, b) == ~IsNaN(a) /\ ~IsNaN(b) /\ a > b
Ge(a, b) == ~IsNaN(a) /\ ~IsNaN(b) /\ a >= b
MathMin(a, b) == IF IsNaN(a) \/ IsNaN(b) THEN NaN ELSE IF a <= b THEN a ELSE b
MathMax(a, b) == IF IsNaN(a) \/ IsNaN(b) THEN NaN ELSE IF a >= b THEN a ELSE b

(***************************************************************************)
(* Timestamps.  A timestamp string is described by what the two parsers of *)
(* the code read from it:                                                  *)
(*   kind "iso"  "2025-01-0dThh:mm:ss+oo:00": day d, the written fields    *)
(*               h, m, s (each up to two digits) and the offset off;       *)
(*   kind "rfc"  a date string without "T<digits>:" that Date can parse,   *)
(*               denoting the instant day d, h:m:s UTC;                    *)
(*   kind "bad"  a string neither parser understands.                      *)
(***************************************************************************)
Iso(h, m) == [kind |-> "iso", day |-> 1, h |-> h, m |-> m, s |-> 0, off |-> 0]
BadStamp == [kind |-> "bad", day |-> 0, h |-> 0, m |-> 0, s |-> 0, off |-> 0]

\* new Date(iso).getTime(), in seconds; NaN for an invalid date.
DateGetTime(iso) ==
    CASE iso.kind = "bad" -> NaN
      [] iso.kind = "rfc" ->
            iso.day * DaySecs + iso.h * HourSecs + iso.m * MinSecs + iso.s
      [] OTHER ->
            IF \/ iso.h > 24 \/ iso.m > 59 \/ iso.s > 59
               \/ (iso.h = 24 /\ (iso.m > 0 \/ iso.s > 0))
            THEN NaN
            ELSE iso.day * DaySecs + iso.h * HourSecs + iso.m * MinSecs
                 + iso.s - iso.off

isoToHoursSinceMidnight(iso) ==
    CASE iso.kind = "iso" -> iso.h * HourSecs + iso.m * MinSecs + iso.s
      [] iso.kind = "bad" -> 0
      [] OTHER ->
            LET t == DateGetTime(iso) IN
            (t % DaySecs)

(***************************************************************************)
(* The per-day form.  ending_shift_location is "absent", "yes" or "no".    *)
(* sleeper_berth_time is absent, a blank string, or a text described by    *)
(* what t.split(':').map(Number) makes of it: the sequence of its fields,  *)
(* each a number or NaN.                                                   *)
(***************************************************************************)
TimeAbsent == [kind |-> "absent", parts |-> <<>>]
TimeBlank == [kind |-> "blank", parts |-> <<>>]
TimeText(parts) == [kind |-> "text", parts |-> parts]

EmptyForm == [ending_shift_location |-> "absent", sleeper_berth_time |-> TimeAbsent]

sleeperBerthActiveForTotals(form) ==
    /\ form.ending_shift_location = "yes"
    /\ form.sleeper_berth_time.kind = "text"

\* Number.isNaN(undefined) is false and undefined / 60 is NaN: a text without
\* a second field makes the sum NaN.
sbTimeHForTotals(form) ==
    IF sleeperBerthActiveForTotals(form)
    THEN LET parts == form.sleeper_berth_time.parts
             h == parts[1]
             hh == IF IsNaN(h) THEN 0 ELSE h
             mmSecs == IF Len(parts) < 2 THEN NaN
                       ELSE (IF IsNaN(parts[2]) THEN 0 ELSE parts[2]) * MinSecs
         IN  MathMax(0, MathMin(DaySecs, Add(hh * HourSecs, mmSecs)))
    ELSE DaySecs

(***************************************************************************)
(* totalsByStatus of LogbookSheet.                                         *)
(***************************************************************************)
Statuses == {"OFF", "SB", "D", "ON"}

ZeroTotals == [st \in Statuses |-> 0]

WithHours(segs) ==
    [k \in 1..Len(segs) |->
        [status |-> segs[k].status,
         startH |-> isoToHoursSinceMidnight(segs[k].start_iso),
         endH |-> isoToHoursSinceMidnight(segs[k].end_iso)]]

\* Array.prototype.sort with (a, b) => a.startH - b.startH, a stable sort:
\* the sorted array holds at position Rank(segs, k) the k-th segment, which
\* follows the segments that start earlier and the earlier ones that start
\* at the same time.
Rank(segs, k) ==
    1 + Cardinality({j \in 1..Len(segs) :
                        \/ segs[j].startH < segs[k].startH
                        \/ (segs[j].startH = segs[k].startH /\ j < k)})

SortByStart(segs) ==
    [r \in 1..Len(segs) |-> segs[CHOOSE k \in 1..Len(segs) : Rank(segs, k) = r]]

Part(status, from, to) == [status |-> status, from |-> from, to |-> to]

\* WalkStep that keeps a segment whose end is not after its start.
WalkStepNoDrop(acc, seg, active, sbTime) ==
    LET start == MathMax(0, MathMin(DaySecs, seg.startH))
        end0 == MathMax(0, MathMin(DaySecs, seg.endH))
        end == IF active THEN MathMin(end0, sbTime) ELSE end0
        gap == Gt(start, acc.prevEnd)
        t1 == IF gap
              THEN [acc.totals EXCEPT !["OFF"] = Add(@, Sub(start, acc.prevEnd))]
              ELSE acc.totals
        p1 == IF gap
              THEN Append(acc.parts, Part("OFF", acc.prevEnd, start))
              ELSE acc.parts
    IN  IF active /\ Ge(start, sbTime) THEN acc
        ELSE [totals |-> [t1 EXCEPT ![seg.status] = Add(@, Sub(end, start))],
              parts |-> Append(p1, Part(seg.status, start, end)),
              prevEnd |-> MathMax(acc.prevEnd, end),
              fillers |-> IF gap
                          THEN Append(acc.fillers, Part("OFF", acc.prevEnd, start))
                          ELSE acc.fillers,
              kept |-> Append(acc.kept, Part(seg.status, start, end)),
              cursor |-> Append(acc.cursor, MathMax(acc.prevEnd, end))]

\* One iteration of the loop over the sorted segments.  acc.parts records,
\* in order, the interval behind every += of the loop.
WalkStep(acc, seg, active, sbTime) ==
    LET start == MathMax(0, MathMin(DaySecs, seg.startH))
        end0 == MathMax(0, MathMin(DaySecs, seg.endH))
    IN  IF active /\ Ge(start, sbTime) THEN acc
        ELSE LET end == IF active THEN MathMin(end0, sbTime) ELSE end0 IN
             IF Le(end, start) THEN acc
             ELSE LET gap == Gt(start, acc.prevEnd)
                      t1 == IF gap
                            THEN [acc.totals EXCEPT
                                    !["OFF"] = Add(@, Sub(start, acc.prevEnd))]
                            ELSE acc.totals
                      p1 == IF gap
                            THEN Append(acc.parts, Part("OFF", acc.prevEnd, start))
                            ELSE acc.parts
                  IN  [totals |-> [t1 EXCEPT ![seg.status] = Add(@, Sub(end, start))],
                       parts |-> Append(p1, Part(seg.status, start, end)),
                       prevEnd |-> MathMax(acc.prevEnd, end),
                       fillers |-> IF gap
                                   THEN Append(acc.fillers, Part("OFF", acc.prevEnd, start))
                                   ELSE acc.fillers,
                       kept |-> Append(acc.kept, Part(seg.status, start, end)),
                       cursor |-> Append(acc.cursor, MathMax(acc.prevEnd, end))]

\* The state of the loop after its first k iterations.
RECURSIVE Walk(_, _, _, _)
Walk(segs, k, active, sbTime) ==
    IF k = 0
    THEN [totals |-> ZeroTotals, parts |-> <<>>, prevEnd |-> 0,
          fillers |-> <<>>, kept |-> <<>>, cursor |-> <<0>>]
    ELSE WalkStep(Walk(segs, k - 1, active, sbTime), segs[k], active, sbTime)

\* The fillers after the last segment.
WalkEnd(acc, active, sbTime) ==
    IF active
    THEN LET off == Lt(acc.prevEnd, sbTime)
             sb == Lt(sbTime, DaySecs)
             t1 == IF off
                   THEN [acc.totals EXCEPT !["OFF"] = Add(@, Sub(sbTime, acc.prevEnd))]
                   ELSE acc.totals
             p1 == IF off
                   THEN Append(acc.parts, Part("OFF", acc.prevEnd, sbTime))
                   ELSE acc.parts
         IN  [totals |-> IF sb
                         THEN [t1 EXCEPT !["SB"] = Add(@, Sub(DaySecs, sbTime))]
                         ELSE t1,
              parts |-> IF sb
                        THEN Append(p1, Part("SB", sbTime, DaySecs))
                        ELSE p1,
              prevEnd |-> acc.prevEnd,
              fillers |-> IF off
                          THEN Append(acc.fillers, Part("OFF", acc.prevEnd, sbTime))
                          ELSE acc.fillers,
              kept |-> acc.kept,
              cursor |-> acc.cursor]
    ELSE IF Lt(acc.prevEnd, DaySecs)
         THEN [totals |-> [acc.totals EXCEPT
                             !["OFF"] = Add(@, Sub(DaySecs, acc.prevEnd))],
               parts |-> Append(acc.parts, Part("OFF", acc.prevEnd, DaySecs)),
               prevEnd |-> acc.prevEnd,
               fillers |-> Append(acc.fillers, Part("OFF", acc.prevEnd, DaySecs)),
               kept |-> acc.kept,
               cursor |-> acc.cursor]
         ELSE acc

\* log.segments as the computation of the totals would leave it if it sorted
\* the array itself.
segmentsSortedInPlace(log) ==
    LET segs == log.segments
        key == WithHours(segs)
    IN  [r \in 1..Len(segs) |-> segs[CHOOSE k \in 1..Len(segs) : Rank(key, k) = r]]

\* log.segments as the computation of the totals leaves it: the array that
\* is mapped and sorted is the copy [...log.segments].
segmentsAfterTotals(log) == log.segments

\* The whole computation for one sheet: the totals and the intervals counted.
ComputeTotals(log, form) ==
    IF Len(log.segments) = 0
    THEN [totals |-> ZeroTotals, parts |-> <<>>, prevEnd |-> 0,
          fillers |-> <<>>, kept |-> <<>>, cursor |-> <<0>>]
    ELSE LET active == sleeperBerthActiveForTotals(form)
             sbTime == sbTimeHForTotals(form)
             segments == SortByStart(WithHours(log.segments))
         IN  WalkEnd(Walk(segments, Len(segments), active, sbTime), active, sbTime)

totalHoursSum(totals) ==
    Add(Add(Add(totals["OFF"], totals["SB"]), totals["D"]), totals["ON"])

(***************************************************************************)
(* LogbookPage: on-duty hours per day and the recap values.                *)
(***************************************************************************)
SeventyLimit == 70
SixtyLimit == 60

\* total after the first k segments of the loop.
RECURSIVE DutyHoursUpTo(_, _)
DutyHoursUpTo(segments, k) ==
    IF k = 0 THEN 0
    ELSE IF segments[k].status # "D" /\ segments[k].status # "ON"
         THEN DutyHoursUpTo(segments, k - 1)
         ELSE Add(DutyHoursUpTo(segments, k - 1),
                  Sub(DateGetTime(segments[k].end_iso),
                      DateGetTime(segments[k].start_iso)))

getDrivingPlusOnDutyHours(segments) == DutyHoursUpTo(segments, Len(segments))

\* total of getDrivingHours after the first k segments of its loop.
RECURSIVE DrivingHoursUpTo(_, _)
DrivingHoursUpTo(segments, k) ==
    IF k = 0 THEN 0
    ELSE IF segments[k].status # "D"
         THEN DrivingHoursUpTo(segments, k - 1)
         ELSE Add(DrivingHoursUpTo(segments, k - 1),
                  Sub(DateGetTime(segments[k].end_iso),
                      DateGetTime(segments[k].start_iso)))

getDrivingHours(segments) == DrivingHoursUpTo(segments, Len(segments))

(***************************************************************************)
(* Mileage.  A mileage is a fraction num / den of miles with den > 0; a    *)
(* NaN mileage has num = NaN.  The distances of the model are whole multiples of 1609.34 m, for  *)
(* which plan.distance_m / 1609.34 is a whole number of miles.             *)
(***************************************************************************)
CentimetresPerMile == 160934

Miles(num, den) == [num |-> num, den |-> den]

totalMiles(p) == (p.distance_m * 100) \div CentimetresPerMile

\* plan.logs.reduce((sum, l) => sum + getDrivingHours(l.segments), 0), after
\* the first k days.
RECURSIVE DriveHoursUpTo(_, _)
DriveHoursUpTo(logs, k) ==
    IF k = 0 THEN 0
    ELSE Add(DriveHoursUpTo(logs, k - 1), getDrivingHours(logs[k].segments))

totalDriveHours(p) == DriveHoursUpTo(p.logs, Len(p.logs))

\* perDayMilesOf with a fallback of no miles for a trip without driving.
perDayMilesOfZeroFallback(p, log) ==
    LET driveHoursThisDay == getDrivingHours(log.segments) IN
    IF Gt(totalDriveHours(p), 0)
    THEN Miles(driveHoursThisDay * totalMiles(p), totalDriveHours(p))
    ELSE Miles(0, 1)

perDayMilesOf(p, log) ==
    LET driveHoursThisDay == getDrivingHours(log.segments) IN
    IF Gt(totalDriveHours(p), 0)
    THEN Miles(driveHoursThisDay * totalMiles(p), totalDriveHours(p))
    ELSE Miles(totalMiles(p), 1)

\* Number.prototype.toFixed(1): the nearest tenth, a half rounded away from
\* zero; the result is the number of tenths.
toFixed1(q) ==
    LET n == IF q.num < 0 THEN 0 - q.num ELSE q.num
        tenths == (20 * n + q.den) \div (2 * q.den)
    IN  IF q.num < 0 THEN 0 - tenths ELSE tenths

\* RecapSum as a running accumulator: the sum of every day up to b.
RECURSIVE RecapSumFromStart(_, _, _)
RecapSumFromStart(hours, a, b) ==
    IF b < 0 THEN 0
    ELSE IF b < Len(hours)
         THEN Add(RecapSumFromStart(hours, a, b - 1), hours[b + 1])
         ELSE RecapSumFromStart(hours, a, b - 1)

\* The inner sum(a, b) of getRecapForDay; indices are the code's, from 0.
RECURSIVE RecapSum(_, _, _)
RecapSum(hours, a, b) ==
    IF a > b THEN 0
    ELSE IF b >= 0 /\ b < Len(hours)
         THEN Add(RecapSum(hours, a, b - 1), hours[b + 1])
         ELSE RecapSum(hours, a, b - 1)

Max0(i) == IF i > 0 THEN i ELSE 0

\* getRecapForDay with the 8-day window used for the 60-hour A value.
getRecapForDayWideSixty(hours, dayIndex) ==
    LET i == dayIndex
        seventyA == RecapSum(hours, Max0(i - 6), i)
        seventyC == RecapSum(hours, Max0(i - 7), i)
        sixtyA == RecapSum(hours, Max0(i - 7), i)
        sixtyC == RecapSum(hours, Max0(i - 6), i)
    IN  [onDutyToday |-> IF i >= 0 /\ i < Len(hours) THEN hours[i + 1] ELSE 0,
         seventyA |-> seventyA,
         seventyB |-> MathMax(0, Sub(SeventyLimit * HourSecs, seventyA)),
         seventyC |-> seventyC,
         sixtyA |-> sixtyA,
         sixtyB |-> MathMax(0, Sub(SixtyLimit * HourSecs, sixtyA)),
         sixtyC |-> sixtyC]

\* getRecapForDay with the 8-day window used for A as well.
getRecapForDayWideA(hours, dayIndex) ==
    LET i == dayIndex
        seventyA == RecapSum(hours, Max0(i - 7), i)
        seventyC == RecapSum(hours, Max0(i - 7), i)
        sixtyA == RecapSum(hours, Max0(i - 4), i)
        sixtyC == RecapSum(hours, Max0(i - 6), i)
    IN  [onDutyToday |-> IF i >= 0 /\ i < Len(hours) THEN hours[i + 1] ELSE 0,
         seventyA |-> seventyA,
         seventyB |-> MathMax(0, Sub(SeventyLimit * HourSecs, seventyA)),
         seventyC |-> seventyC,
         sixtyA |-> sixtyA,
         sixtyB |-> MathMax(0, Sub(SixtyLimit * HourSecs, sixtyA)),
         sixtyC |-> sixtyC]

\* getRecapForDay without the floor at 0 of the B values.
getRecapForDayNoFloor(hours, dayIndex) ==
    LET i == dayIndex
        seventyA == RecapSum(hours, Max0(i - 6), i)
        seventyC == RecapSum(hours, Max0(i - 7), i)
        sixtyA == RecapSum(hours, Max0(i - 4), i)
        sixtyC == RecapSum(hours, Max0(i - 6), i)
    IN  [onDutyToday |-> IF i >= 0 /\ i < Len(hours) THEN hours[i + 1] ELSE 0,
         seventyA |-> seventyA,
         seventyB |-> Sub(SeventyLimit * HourSecs, seventyA),
         seventyC |-> seventyC,
         sixtyA |-> sixtyA,
         sixtyB |-> Sub(SixtyLimit * HourSecs, sixtyA),
         sixtyC |-> sixtyC]

getRecapForDay(hours, dayIndex) ==
    LET i == dayIndex
        seventyA == RecapSum(hours, Max0(i - 6), i)
        seventyC == RecapSum(hours, Max0(i - 7), i)
        sixtyA == RecapSum(hours, Max0(i - 4), i)
        sixtyC == RecapSum(hours, Max0(i - 6), i)
    IN  [onDutyToday |-> IF i >= 0 /\ i < Len(hours) THEN hours[i + 1] ELSE 0,
         seventyA |-> seventyA,
         seventyB |-> MathMax(0, Sub(SeventyLimit * HourSecs, seventyA)),
         seventyC |-> seventyC,
         sixtyA |-> sixtyA,
         sixtyB |-> MathMax(0, Sub(SixtyLimit * HourSecs, sixtyA)),
         sixtyC |-> sixtyC]

(***************************************************************************)
(* The drawing of LogbookSheet.  A horizontal position on the duty grid is *)
(* dutyGridX + (hours / 24) * dutyGridW; it is kept as the hours, in        *)
(* seconds, so that its fraction of the grid width is hours / DaySecs.     *)
(***************************************************************************)
sleeperBerthActive(form) ==
    /\ form.ending_shift_location = "yes"
    /\ form.sleeper_berth_time.kind = "text"

sbTimeH(form) ==
    IF sleeperBerthActive(form)
    THEN LET parts == form.sleeper_berth_time.parts
             h == parts[1]
             hh == IF IsNaN(h) THEN 0 ELSE h
             mmSecs == IF Len(parts) < 2 THEN NaN
                       ELSE (IF IsNaN(parts[2]) THEN 0 ELSE parts[2]) * MinSecs
         IN  MathMax(0, MathMin(DaySecs, Add(hh * HourSecs, mmSecs)))
    ELSE 0

NoLine == [drawn |-> FALSE, status |-> "OFF", from |-> 0, to |-> 0]

\* The horizontal line of one segment, or nothing.
SegmentLine(seg, form) ==
    LET startH == isoToHoursSinceMidnight(seg.start_iso)
        endH0 == isoToHoursSinceMidnight(seg.end_iso)
        endH == IF sleeperBerthActive(form) /\ Gt(endH0, sbTimeH(form))
                THEN sbTimeH(form) ELSE endH0
        clampedStart == MathMax(0, MathMin(DaySecs, startH))
        clampedEnd == MathMax(0, MathMin(DaySecs, endH))
    IN  IF Le(clampedEnd, 0) \/ Ge(clampedStart, DaySecs) \/ Le(clampedEnd, clampedStart)
        THEN NoLine
        ELSE [drawn |-> TRUE, status |-> seg.status,
              from |-> clampedStart, to |-> clampedEnd]

NoConnector == [drawn |-> FALSE, at |-> 0, from |-> "OFF", to |-> "OFF"]

\* SegmentConnector that does not compare the two times.
SegmentConnectorAlways(segments, idx) ==
    IF idx = 1 THEN NoConnector
    ELSE LET prev == segments[idx - 1]
             changeTime == isoToHoursSinceMidnight(segments[idx].start_iso)
             clamped == MathMax(0, MathMin(DaySecs, changeTime))
         IN  IF Le(clamped, 0) \/ Ge(clamped, DaySecs) THEN NoConnector
             ELSE [drawn |-> TRUE, at |-> clamped,
                   from |-> prev.status, to |-> segments[idx].status]

\* The vertical connector before the idx-th segment of the list, or nothing.
\* Times are whole seconds, so two times differ by more than 1e-6 hours
\* exactly when they differ.
SegmentConnector(segments, idx) ==
    IF idx = 1 THEN NoConnector
    ELSE LET prev == segments[idx - 1]
             changeTime == isoToHoursSinceMidnight(segments[idx].start_iso)
             prevEnd == isoToHoursSinceMidnight(prev.end_iso)
             clamped == MathMax(0, MathMin(DaySecs, changeTime))
         IN  IF changeTime # prevEnd THEN NoConnector
             ELSE IF Le(clamped, 0) \/ Ge(clamped, DaySecs) THEN NoConnector
             ELSE [drawn |-> TRUE, at |-> clamped,
                   from |-> prev.status, to |-> segments[idx].status]

\* A remark event has a start_iso and an end_iso, which may be missing.
NoStamp == [kind |-> "none", day |-> 0, h |-> 0, m |-> 0, s |-> 0, off |-> 0]

\* /^(\d{4}-\d{2}-\d{2})/ finds the date of a timestamp written as one.
hasEndSameDay(ev, log) ==
    /\ ev.end_iso # NoStamp
    /\ (ev.end_iso.kind # "iso" \/ ev.end_iso.day = log.date)

\* The marks of one remark event: the hours of startX and of endX.
RemarkMark(ev, log) ==
    [start |-> isoToHoursSinceMidnight(ev.start_iso),
     hasEnd |-> hasEndSameDay(ev, log),
     end |-> IF hasEndSameDay(ev, log)
             THEN isoToHoursSinceMidnight(ev.end_iso) ELSE 0]

RemarkEvents(log) ==
    IF "remark_events" \in DOMAIN log THEN log.remark_events ELSE <<>>

\* x || 0
OrZero(x) == IF IsNaN(x) THEN 0 ELSE x

\* The index the loops over the segments end with: the first segment whose
\* start is the earliest, and the first whose end is the latest.
FirstSegIndex(segments) ==
    CHOOSE i \in 1..Len(segments) :
        /\ \A j \in 1..Len(segments) :
              OrZero(isoToHoursSinceMidnight(segments[i].start_iso))
                 <= OrZero(isoToHoursSinceMidnight(segments[j].start_iso))
        /\ \A j \in 1..(i - 1) :
              OrZero(isoToHoursSinceMidnight(segments[i].start_iso))
                 < OrZero(isoToHoursSinceMidnight(segments[j].start_iso))

LastSegIndex(segments) ==
    CHOOSE i \in 1..Len(segments) :
        /\ \A j \in 1..Len(segments) :
              OrZero(isoToHoursSinceMidnight(segments[i].end_iso))
                 >= OrZero(isoToHoursSinceMidnight(segments[j].end_iso))
        /\ \A j \in 1..(i - 1) :
              OrZero(isoToHoursSinceMidnight(segments[i].end_iso))
                 > OrZero(isoToHoursSinceMidnight(segments[j].end_iso))

NoFirstOff == [drawn |-> FALSE, to |-> 0, connector |-> FALSE, status |-> "OFF"]

\* The OFF line from midnight to the first segment, its point and its
\* connector to the row of the first segment.
FirstOff(log, form) ==
    IF Len(log.segments) = 0 THEN NoFirstOff
    ELSE LET firstSeg == log.segments[FirstSegIndex(log.segments)]
             firstStart == OrZero(isoToHoursSinceMidnight(firstSeg.start_iso))
             endCap == IF sleeperBerthActive(form) /\ Gt(firstStart, sbTimeH(form))
                       THEN sbTimeH(form) ELSE firstStart
             clampedEnd == MathMax(0, MathMin(DaySecs, endCap))
         IN  IF ~(firstStart > 0) \/ Le(clampedEnd, 0) THEN NoFirstOff
             ELSE [drawn |-> TRUE, to |-> clampedEnd,
                   connector |-> ~sleeperBerthActive(form)
                                    \/ Le(firstStart, sbTimeH(form)),
                   status |-> firstSeg.status]

NoEndOfDay ==
    [drawn |-> FALSE, at |-> 0, vertical |-> FALSE, status |-> "OFF",
     offLine |-> FALSE, offTo |-> 0, sb |-> FALSE, sbAt |-> 0]

\* The end of the day: the point on the OFF row and the vertical from the
\* row of the last segment at the end of that segment; then the OFF line to
\* midnight, or the OFF line to sbTimeH and the SB line from there.
EndOfDay(log, form) ==
    IF Len(log.segments) = 0 THEN NoEndOfDay
    ELSE LET lastSeg == log.segments[LastSegIndex(log.segments)]
             lastEnd == OrZero(isoToHoursSinceMidnight(lastSeg.end_iso))
             clampedEnd == MathMax(0, MathMin(DaySecs, lastEnd))
             sb == /\ sleeperBerthActive(form)
                   /\ Gt(sbTimeH(form), 0)
                   /\ Lt(sbTimeH(form), DaySecs)
         IN  IF ~(lastEnd < DaySecs /\ lastEnd > 0) THEN NoEndOfDay
             ELSE [drawn |-> TRUE, at |-> clampedEnd,
                   vertical |-> lastSeg.status # "OFF",
                   status |-> lastSeg.status,
                   offLine |-> IF sb THEN Lt(lastEnd, sbTimeH(form)) ELSE TRUE,
                   offTo |-> IF sb THEN sbTimeH(form) ELSE DaySecs,
                   sb |-> sb,
                   sbAt |-> IF sb THEN sbTimeH(form) ELSE clampedEnd]

\* What the sheet of a day draws on the duty grid.
DrawSheet(log, form) ==
    [firstOff |-> FirstOff(log, form),
     endOfDay |-> EndOfDay(log, form),
     lines |-> [j \in 1..Len(log.segments) |-> SegmentLine(log.segments[j], form)],
     connectors |-> [j \in 1..Len(log.segments) |-> SegmentConnector(log.segments, j)],
     remarks |-> [j \in 1..Len(RemarkEvents(log)) |->
                     RemarkMark(RemarkEvents(log)[j], log)]]

(***************************************************************************)
(* The page state: plan and formByDate are the React state of LogbookPage; *)
(* the other variables are what the render that follows every state       *)
(* change computes from them, one entry per day of the plan.               *)
(***************************************************************************)
NoPlan == [loaded |-> FALSE, logs |-> <<>>, distance_m |-> 0]

FormOf(forms, date) == IF date \in DOMAIN forms THEN forms[date] ELSE EmptyForm

\* A day as the page needs it: an object with a segments array.
HasSegments(log) == "segments" \in DOMAIN log

\* What a render throws: nothing, or the TypeError of iterating the
\* undefined segments of a day, which names no day.
NoError == [name |-> "none", date |-> 0]
TypeError == [name |-> "TypeError", date |-> 0]

\* The render of a plan with a day without segments: the first statement
\* throws and the page shows nothing.
RenderThrows ==
    /\ renderError' = TypeError
    /\ hoursByDay' = <<>>
    /\ recapValues' = <<>>
    /\ totalsByStatus' = <<>>
    /\ normalized' = <<>>
    /\ perDayMiles' = <<>>
    /\ milesText' = <<>>
    /\ drawn' = <<>>

\* One render of the page: hoursByDay, then for every day its recap values
\* and its sheet, drawn with the form saved for the day's date.
RenderDays(p, forms) ==
    /\ hoursByDay' = [k \in 1..Len(p.logs) |->
                         getDrivingPlusOnDutyHours(p.logs[k].segments)]
    /\ recapValues' = [k \in 1..Len(p.logs) |-> getRecapForDay(hoursByDay', k - 1)]
    /\ totalsByStatus' =
          [k \in 1..Len(p.logs) |->
              ComputeTotals(p.logs[k], FormOf(forms, p.logs[k].date)).totals]
    /\ normalized' =
          [k \in 1..Len(p.logs) |->
              ComputeTotals(p.logs[k], FormOf(forms, p.logs[k].date)).parts]
    /\ perDayMiles' = [k \in 1..Len(p.logs) |-> perDayMilesOf(p, p.logs[k])]
    /\ milesText' = [k \in 1..Len(p.logs) |-> toFixed1(perDayMiles'[k])]
    /\ drawn' = [k \in 1..Len(p.logs) |->
                    DrawSheet(p.logs[k], FormOf(forms, p.logs[k].date))]
    /\ renderError' = NoError

Render(p, forms) ==
    IF \E k \in 1..Len(p.logs) : ~HasSegments(p.logs[k])
    THEN RenderThrows
    ELSE RenderDays(p, forms)

\* The days of the plan after the sheets of a render were computed from them.
LogsAfterRender(logs) ==
    IF \E k \in 1..Len(logs) : ~HasSegments(logs[k])
    THEN logs
    ELSE [k \in 1..Len(logs) |->
             [logs[k] EXCEPT !.segments = segmentsAfterTotals(logs[k])]]

(***************************************************************************)
(* The api client (api/client.ts), the session (auth/AuthContext.tsx) and  *)
(* the pages that call them.  A step is one task of the browser's event    *)
(* loop: a user action, or the arrival of a response with every promise    *)
(* continuation that it resumes.                                           *)
(***************************************************************************)
ACCESS_KEY == "truck_hos_access"

REFRESH_KEY == "truck_hos_refresh"

StorageKeys == {ACCESS_KEY, REFRESH_KEY}

\* getItem of a key that is not stored gives null; a header that is absent.
NoToken == [kind |-> "none", id |-> 0]

AccessToken(n) == [kind |-> "access", id |-> n]

RefreshToken(n) == [kind |-> "refresh", id |-> n]

NoTokens == [k \in StorageKeys |-> NoToken]

\* refreshInFlight = null
NoPromise == 0

AuthPages == {"/login", "/register"}

requestInterceptorKeepsHeader(storage, authorization) ==
    IF authorization # NoToken THEN authorization ELSE storage[ACCESS_KEY]

\* The request interceptor: the stored access token replaces the header.
requestInterceptor(storage, authorization) ==
    IF storage[ACCESS_KEY] # NoToken THEN storage[ACCESS_KEY] ELSE authorization

Request(url, authorization) ==
    [url |-> url, Authorization |-> authorization, _retry |-> FALSE,
     sends |-> 1, state |-> "sent", error |-> 0, awaits |-> NoPromise]

hadAuthHeaderAlways(config) == TRUE

hadAuthHeader(config) == config.Authorization # NoToken

isRefreshCall(url) == url = "/auth/refresh/"

shouldRefreshIgnoringRetry(config) ==
    hadAuthHeader(config) /\ ~isRefreshCall(config.url)

shouldRefresh(config) ==
    hadAuthHeader(config) /\ ~isRefreshCall(config.url) /\ ~config._retry

startsRefreshAlways(inFlight) == TRUE

startsRefresh(inFlight) == inFlight = NoPromise

redirectsAlways(path) == TRUE

redirects(path) == path # "/login" /\ path # "/register"

\* PublicRoute and PrivateRoute of the router.
Route(path, token) ==
    IF path \in AuthPages
    THEN IF token # NoToken THEN "/planner" ELSE path
    ELSE IF token = NoToken THEN "/login" ELSE path

\* The effect of TripPlannerPage on the default headers of the client.
plannerEffect(path, token, defaults) ==
    IF path = "/planner" /\ token # NoToken THEN token ELSE defaults

login(tokens) ==
    /\ accessToken' = tokens.access
    /\ localStorage' = [k \in StorageKeys |->
                           IF k = ACCESS_KEY THEN tokens.access ELSE tokens.refresh]
    /\ loggedOut' = FALSE
    /\ previousAccess' = {}

logout ==
    /\ accessToken' = NoToken
    /\ localStorage' = NoTokens
    /\ loggedOut' = TRUE
    /\ previousAccess' = {localStorage[ACCESS_KEY], accessToken} \ {NoToken}

Rejected(reqs, failed, status) ==
    [r \in DOMAIN reqs |->
        IF r \in failed
        THEN [reqs[r] EXCEPT !.state = "rejected", !.error = status,
                             !.awaits = NoPromise]
        ELSE reqs[r]]

\* The requests the document had pending are gone when it is unloaded.
Unloaded(reqs) ==
    [r \in DOMAIN reqs |->
        IF reqs[r].state \in {"sent", "awaiting"}
        THEN [reqs[r] EXCEPT !.state = "aborted", !.awaits = NoPromise]
        ELSE reqs[r]]

\* The end of the 401 handler for the requests of failed; inFlight and calls
\* are the refresh promise and the refresh calls the document keeps.
RejectUnauthorized(reqs, failed, inFlight, calls) ==
    LET cleared == \E r \in failed : hadAuthHeader(reqs[r])
        redirected == cleared /\ redirects(pathname)
        storage == IF cleared THEN NoTokens ELSE localStorage
    IN  /\ localStorage' = storage
        /\ hrefAssigned' = redirected
        /\ IF redirected
           THEN /\ pathname' = Route("/login", storage[ACCESS_KEY])
                /\ accessToken' = storage[ACCESS_KEY]
                /\ defaultsAuthorization' = NoToken
                /\ refreshInFlight' = NoPromise
                /\ refreshCalls' = {}
                /\ requests' = Unloaded(Rejected(reqs, failed, 401))
           ELSE /\ requests' = Rejected(reqs, failed, 401)
                /\ refreshInFlight' = inFlight
                /\ refreshCalls' = calls
                /\ UNCHANGED <<pathname, accessToken, defaultsAuthorization>>
        /\ UNCHANGED <<issued, loggedOut, previousAccess>>

AuthInit ==
    /\ localStorage = NoTokens
    /\ accessToken = NoToken
    /\ defaultsAuthorization = NoToken
    /\ pathname = "/login"
    /\ requests = <<>>
    /\ refreshInFlight = NoPromise
    /\ refreshCalls = {}
    /\ issued = 0
    /\ hrefAssigned = FALSE
    /\ loggedOut = FALSE
    /\ previousAccess = {}

PageUrl(path) ==
    CASE path = "/login" -> "/auth/login/"
      [] path = "/register" -> "/auth/register/"
      [] OTHER -> "/trips/plan/"

\* A page calls the api client.
sendRequest ==
    /\ Len(requests) < MaxRequests
    /\ requests' = Append(requests,
          Request(PageUrl(pathname),
                  requestInterceptor(localStorage, defaultsAuthorization)))
    /\ hrefAssigned' = FALSE
    /\ UNCHANGED <<localStorage, accessToken, defaultsAuthorization, pathname,
                   refreshInFlight, refreshCalls, issued, loggedOut,
                   previousAccess, pageVars>>

\* A link between the login page and the register page.
followLink ==
    /\ pathname \in AuthPages
    /\ pathname' = Route(CHOOSE p \in AuthPages : p # pathname, accessToken)
    /\ defaultsAuthorization' =
          plannerEffect(pathname', accessToken, defaultsAuthorization)
    /\ hrefAssigned' = FALSE
    /\ UNCHANGED <<localStorage, accessToken, requests, refreshInFlight,
                   refreshCalls, issued, loggedOut, previousAccess, pageVars>>

\* The response 2xx to request r, and what the caller does with it.
resolve(r) ==
    /\ r \in DOMAIN requests
    /\ requests[r].state = "sent"
    /\ requests' = [requests EXCEPT ![r].state = "resolved"]
    /\ hrefAssigned' = FALSE
    /\ UNCHANGED <<refreshInFlight, refreshCalls, pageVars>>
    /\ CASE requests[r].url = "/auth/login/" ->
               /\ issued < MaxTokens
               /\ issued' = issued + 1
               /\ login([access |-> AccessToken(issued'),
                         refresh |-> RefreshToken(issued')])
               /\ pathname' = Route("/planner", accessToken')
               /\ defaultsAuthorization' =
                     plannerEffect(pathname', accessToken', defaultsAuthorization)
         [] requests[r].url = "/auth/register/" ->
               /\ pathname' = Route("/login", accessToken)
               /\ defaultsAuthorization' =
                     plannerEffect(pathname', accessToken, defaultsAuthorization)
               /\ UNCHANGED <<localStorage, accessToken, issued, loggedOut,
                              previousAccess>>
         [] OTHER ->
               UNCHANGED <<localStorage, accessToken, defaultsAuthorization,
                           pathname, issued, loggedOut, previousAccess>>

ErrorStatuses == {400, 500}

\* An error response other than 401 to request r.
reject(r, status) ==
    /\ r \in DOMAIN requests
    /\ requests[r].state = "sent"
    /\ status # 401
    /\ requests' = Rejected(requests, {r}, status)
    /\ hrefAssigned' = FALSE
    /\ UNCHANGED <<localStorage, accessToken, defaultsAuthorization, pathname,
                   refreshInFlight, refreshCalls, issued, loggedOut,
                   previousAccess, pageVars>>

NewCall == CHOOSE c \in 1..(MaxRequests + 1) : c \notin refreshCalls

\* The response 401 to request r.
unauthorized(r) ==
    /\ r \in DOMAIN requests
    /\ requests[r].state = "sent"
    /\ UNCHANGED pageVars
    /\ IF shouldRefresh(requests[r])
       THEN LET retried == [requests EXCEPT ![r]._retry = TRUE]
            IN  IF startsRefresh(refreshInFlight)
                THEN IF localStorage[REFRESH_KEY] = NoToken
                     THEN RejectUnauthorized(retried, {r}, NoPromise, refreshCalls)
                     ELSE /\ refreshCalls' = refreshCalls \cup {NewCall}
                          /\ refreshInFlight' = NewCall
                          /\ requests' = [retried EXCEPT ![r].state = "awaiting",
                                                         ![r].awaits = NewCall]
                          /\ hrefAssigned' = FALSE
                          /\ UNCHANGED <<localStorage, accessToken,
                                         defaultsAuthorization, pathname, issued,
                                         loggedOut, previousAccess>>
                ELSE /\ requests' = [retried EXCEPT ![r].state = "awaiting",
                                                    ![r].awaits = refreshInFlight]
                     /\ hrefAssigned' = FALSE
                     /\ UNCHANGED <<localStorage, accessToken, defaultsAuthorization,
                                    pathname, refreshInFlight, refreshCalls, issued,
                                    loggedOut, previousAccess>>
       ELSE RejectUnauthorized(requests, {r}, refreshInFlight, refreshCalls)

Waiters(c) ==
    {r \in DOMAIN requests : requests[r].state = "awaiting" /\ requests[r].awaits = c}

\* The refresh call c fails, or its response holds no access token.
refreshThrows(c) ==
    /\ c \in refreshCalls
    /\ UNCHANGED pageVars
    /\ RejectUnauthorized(requests, Waiters(c), NoPromise, refreshCalls \ {c})

\* The refresh call c returns the tokens of res.
refreshAccessToken(c, res) ==
    /\ c \in refreshCalls
    /\ IF res.access = NoToken
       THEN refreshThrows(c)
       ELSE /\ issued < MaxTokens
            /\ issued' = issued + 1
            /\ res.access = AccessToken(issued')
            /\ res.refresh \in {NoToken, RefreshToken(issued')}
            /\ localStorage' =
                  [k \in StorageKeys |->
                      IF k = ACCESS_KEY THEN res.access
                      ELSE IF res.refresh # NoToken THEN res.refresh
                      ELSE localStorage[REFRESH_KEY]]
            /\ refreshInFlight' = NoPromise
            /\ refreshCalls' = refreshCalls \ {c}
            /\ requests' =
                  [r \in DOMAIN requests |->
                      IF r \in Waiters(c)
                      THEN [requests[r] EXCEPT
                               !.Authorization =
                                   requestInterceptor(localStorage', res.access),
                               !.sends = @ + 1,
                               !.state = "sent",
                               !.awaits = NoPromise]
                      ELSE requests[r]]
            /\ hrefAssigned' = FALSE
            /\ UNCHANGED <<accessToken, defaultsAuthorization, pathname,
                           loggedOut, previousAccess, pageVars>>

RefreshResponses ==
    [access : {NoToken} \cup {AccessToken(n) : n \in 1..MaxTokens},
     refresh : {NoToken} \cup {RefreshToken(n) : n \in 1..MaxTokens}]

\* The logout button of the planner page.
handleLogout ==
    /\ pathname = "/planner"
    /\ logout
    /\ pathname' = Route("/login", accessToken')
    /\ hrefAssigned' = FALSE
    /\ UNCHANGED <<defaultsAuthorization, requests, refreshInFlight,
                   refreshCalls, issued, pageVars>>

AuthNext ==
    \/ sendRequest
    \/ followLink
    \/ handleLogout
    \/ \E r \in 1..MaxRequests : resolve(r)
    \/ \E r \in 1..MaxRequests, status \in ErrorStatuses : reject(r, status)
    \/ \E r \in 1..MaxRequests : unauthorized(r)
    \/ \E c \in 1..(MaxRequests + 1) : refreshThrows(c)
    \/ \E c \in 1..(MaxRequests + 1), res \in RefreshResponses :
          refreshAccessToken(c, res)

Init ==
    /\ AuthInit
    /\ plan = NoPlan
    /\ planResponse = NoPlan
    /\ formByDate = <<>>
    /\ hoursByDay = <<>>
    /\ recapValues = <<>>
    /\ totalsByStatus = <<>>
    /\ normalized = <<>>
    /\ perDayMiles = <<>>
    /\ milesText = <<>>
    /\ drawn = <<>>
    /\ renderError = NoError

\* planResponse keeps the plan as the response of the server held it.
setPlan(p) ==
    /\ planResponse' = [loaded |-> TRUE, logs |-> p.logs, distance_m |-> p.distance_m]
    /\ plan' = [planResponse' EXCEPT !.logs = LogsAfterRender(p.logs)]
    /\ UNCHANGED <<formByDate, authVars>>
    /\ Render(planResponse', formByDate)

setFormByDate(byDate) ==
    /\ plan.loaded
    /\ formByDate' = byDate
    /\ plan' = [plan EXCEPT !.logs = LogsAfterRender(plan.logs)]
    /\ UNCHANGED <<planResponse, authVars>>
    /\ Render(plan, formByDate')

updateField(date, field, value) ==
    /\ plan.loaded
    /\ \E k \in 1..Len(plan.logs) : plan.logs[k].date = date
    /\ formByDate' =
          [d \in DOMAIN formByDate \cup {date} |->
              IF d = date
              THEN [FormOf(formByDate, date) EXCEPT ![field] = value]
              ELSE formByDate[d]]
    /\ plan' = [plan EXCEPT !.logs = LogsAfterRender(plan.logs)]
    /\ UNCHANGED <<planResponse, authVars>>
    /\ Render(plan, formByDate')

(***************************************************************************)
(* Inputs of the sheet specification: one-day plans.                       *)
(***************************************************************************)
Seg(status, start, end) == [status |-> status, start_iso |-> start, end_iso |-> end]

SheetStamps == {Iso(7, 0), Iso(12, 30), Iso(15, 0), Iso(25, 0)}

\* The segments a day of n segments is drawn from: every status with every
\* pair of stamps for a short day, fewer stamps or a fixed choice of
\* overlapping, nested, reversed and out-of-range segments for a longer one.
SegPool(n) ==
    IF n <= 1
    THEN {Seg(st, a, b) : st \in Statuses, a \in SheetStamps, b \in SheetStamps}
    ELSE IF n = 2
    THEN {Seg(st, a, b) : st \in Statuses,
                          a \in SheetStamps \ {Iso(12, 30)},
                          b \in SheetStamps \ {Iso(12, 30)}}
    ELSE {Seg("D", Iso(7, 0), Iso(15, 0)), Seg("ON", Iso(12, 30), Iso(25, 0)),
          Seg("SB", Iso(7, 0), Iso(12, 30)), Seg("OFF", Iso(15, 0), Iso(25, 0)),
          Seg("ON", Iso(7, 0), Iso(25, 0)), Seg("D", Iso(15, 0), Iso(12, 30))}

\* The scenario day of the design document.
ScenarioDay ==
    <<Seg("ON", Iso(7, 0), Iso(8, 0)), Seg("D", Iso(8, 0), Iso(12, 0)),
      Seg("OFF", Iso(12, 0), Iso(12, 30)), Seg("D", Iso(12, 30), Iso(15, 0))>>

\* The one-day trips are 100 miles long.
SheetPlan(segments) ==
    [distance_m |-> 160934, logs |-> <<[date |-> 1, segments |-> segments]>>]

\* The effect that loads the saved trip: it runs once, while no plan is set,
\* and sets the plan the server returns, here a trip of one day.
loadSheetPlan ==
    /\ ~plan.loaded
    /\ \/ \E n \in 0..MaxSegs : \E segments \in [1..n -> SegPool(n)] :
             setPlan(SheetPlan(segments))
       \/ setPlan(SheetPlan(ScenarioDay))

\* What the time input of the page yields: an empty string or "HH:MM".
SheetTimes ==
    {TimeBlank, TimeText(<<0, 0>>), TimeText(<<13, 0>>), TimeText(<<20, 0>>)}

\* The forms saved on the server for the day: none, or a form with the
\* override chosen and a time that is missing, "7" or "ab:cd".
SavedForms ==
    {<<>>} \cup
    {[d \in {1} |-> [ending_shift_location |-> "yes", sleeper_berth_time |-> t]] :
        t \in {TimeAbsent, TimeText(<<7>>), TimeText(<<NaN, NaN>>)}}

SheetNext ==
    \/ loadSheetPlan
    \/ \E byDate \in SavedForms : setFormByDate(byDate)
    \/ \E v \in {"yes", "no"} : updateField(1, "ending_shift_location", v)
    \/ \E t \in SheetTimes : updateField(1, "sleeper_berth_time", t)

SheetSpec == Init /\ [][SheetNext]_vars

(***************************************************************************)
(* Inputs of the recap specification: trips of up to MaxDays days.         *)
(***************************************************************************)
IsoDay(d, h, m) == [kind |-> "iso", day |-> d, h |-> h, m |-> m, s |-> 0, off |-> 0]

\* A day of the trip: 8 hours or 14 hours on duty, a driving segment whose
\* end is written before its start, or a segment with an unreadable end.
RecapSegments(d, kind) ==
    CASE kind = "eight" ->
            <<Seg("ON", IsoDay(d, 7, 0), IsoDay(d, 8, 0)),
              Seg("D", IsoDay(d, 8, 0), IsoDay(d, 15, 0))>>
      [] kind = "fourteen" ->
            <<Seg("OFF", IsoDay(d, 0, 0), IsoDay(d, 6, 0)),
              Seg("D", IsoDay(d, 6, 0), IsoDay(d, 20, 0))>>
      [] kind = "reversed" ->
            <<Seg("D", IsoDay(d, 15, 0), IsoDay(d, 13, 0))>>
      [] OTHER ->
            <<Seg("ON", IsoDay(d, 7, 0), BadStamp)>>

\* The kinds of day a trip of n days is drawn from.
RecapKinds(n) ==
    IF n <= 2 THEN {"eight", "fourteen", "reversed", "unreadable"}
    ELSE IF n <= 7 THEN {"eight", "fourteen", "reversed"}
    ELSE {"eight", "fourteen"}

RecapPlan(n, kinds) ==
    [distance_m |-> 160934,
     logs |-> [d \in 1..n |-> [date |-> d, segments |-> RecapSegments(d, kinds[d])]]]

\* The same effect, the server returning a trip of up to MaxDays days.
loadRecapPlan ==
    /\ ~plan.loaded
    /\ \E n \in 0..MaxDays : \E kinds \in [1..n -> RecapKinds(n)] :
          setPlan(RecapPlan(n, kinds))

RecapNext == loadRecapPlan

RecapSpec == Init /\ [][RecapNext]_vars

(***************************************************************************)
(* Inputs of the trip specification: trips of up to MaxTripDays days whose *)
(* timestamps may carry a UTC offset, be written backwards or be            *)
(* unreadable, with a distance of 0, 100 or 300 miles.                     *)
(***************************************************************************)
IsoOff(d, h, m, off) ==
    [kind |-> "iso", day |-> d, h |-> h, m |-> m, s |-> 0, off |-> off]

\* A day of the trip: "rest" has no driving, "lost" a driving segment with an
\* unreadable end, "zone" the eight-hour day written with the offset +05:00,
\* "mixed" a driving segment whose start is written with +00:00 and whose
\* end with -05:00; the other kinds are those of RecapSegments.
TripSegments(d, kind) ==
    CASE kind = "rest" ->
            <<Seg("OFF", IsoDay(d, 0, 0), IsoDay(d, 9, 0)),
              Seg("ON", IsoDay(d, 9, 0), IsoDay(d, 10, 0))>>
      [] kind = "lost" ->
            <<Seg("D", IsoDay(d, 7, 0), BadStamp)>>
      [] kind = "zone" ->
            <<Seg("ON", IsoOff(d, 7, 0, 5 * HourSecs), IsoOff(d, 8, 0, 5 * HourSecs)),
              Seg("D", IsoOff(d, 8, 0, 5 * HourSecs), IsoOff(d, 15, 0, 5 * HourSecs))>>
      [] kind = "mixed" ->
            <<Seg("D", IsoOff(d, 8, 0, 0), IsoOff(d, 15, 0, 0 - 5 * HourSecs))>>
      [] OTHER -> RecapSegments(d, kind)

TripKinds == {"rest", "eight", "fourteen", "reversed", "lost", "zone", "mixed"}

TripDistances == {0, 160934, 482802}

TripPlan(n, kinds, distance) ==
    [distance_m |-> distance,
     logs |-> [d \in 1..n |-> [date |-> d, segments |-> TripSegments(d, kinds[d])]]]

\* The same effect, the server returning a trip of up to MaxTripDays days.
loadTripPlan ==
    /\ ~plan.loaded
    /\ \E n \in 0..MaxTripDays : \E kinds \in [1..n -> TripKinds] :
          \E distance \in TripDistances : setPlan(TripPlan(n, kinds, distance))

TripNext == loadTripPlan

TripSpec == Init /\ [][TripNext]_vars

(***************************************************************************)
(* Inputs of the unchecked specification: trips as the server may send     *)
(* them, a day of which may lack its segments.                             *)
(***************************************************************************)
UncheckedKinds == {"rest", "eight", "reversed", "nosegments"}

UncheckedDay(d, kind) ==
    IF kind = "nosegments" THEN [date |-> d]
    ELSE [date |-> d, segments |-> TripSegments(d, kind)]

UncheckedPlan(n, kinds, distance) ==
    [distance_m |-> distance, logs |-> [d \in 1..n |-> UncheckedDay(d, kinds[d])]]

\* The same effect: the plan is set as it came, without a check.
loadUncheckedPlan ==
    /\ ~plan.loaded
    /\ \E n \in 0..MaxTripDays : \E kinds \in [1..n -> UncheckedKinds] :
          \E distance \in TripDistances :
              setPlan(UncheckedPlan(n, kinds, distance))

UncheckedNext == loadUncheckedPlan

UncheckedSpec == Init /\ [][UncheckedNext]_vars

(***************************************************************************)
(* Inputs of the drawing specification: one-day plans with remark events.  *)
(***************************************************************************)
RemarkEvent(start, end) == [start_iso |-> start, end_iso |-> end]

\* An event starts at 07:00, at 12:30, at an hour written as 25 or at an
\* unreadable time, and has no end, an end on the day, an end written as
\* 25:00 or an end on the next day.
RemarkPool ==
    {RemarkEvent(a, b) :
        a \in {Iso(7, 0), Iso(12, 30), Iso(25, 0), BadStamp},
        b \in {NoStamp, Iso(15, 0), Iso(25, 0), IsoDay(2, 9, 0)}}

DrawnDays ==
    {<<>>, ScenarioDay, <<Seg("D", Iso(7, 0), Iso(25, 0))>>}

DrawPlan(segments, events) ==
    [distance_m |-> 160934,
     logs |-> <<[date |-> 1, segments |-> segments, remark_events |-> events]>>]

\* The same effect, the server returning a day with remark events.
loadDrawPlan ==
    /\ ~plan.loaded
    /\ \E segments \in DrawnDays : \E n \in 0..MaxRemarks :
          \E events \in [1..n -> RemarkPool] : setPlan(DrawPlan(segments, events))

DrawNext ==
    \/ loadDrawPlan
    \/ \E v \in {"yes", "no"} : updateField(1, "ending_shift_location", v)
    \/ \E t \in {TimeText(<<13, 0>>)} : updateField(1, "sleeper_berth_time", t)

DrawSpec == Init /\ [][DrawNext]_vars

(***************************************************************************)
(* Properties of the day totals (SheetSpec).                               *)
(***************************************************************************)
Hours(h) == h * HourSecs

Days == 1..Len(plan.logs)

DayForm(k) == FormOf(formByDate, plan.logs[k].date)

\* The operator chose "Staying in Sleeper Berth? Yes" for day k.
OverrideChosen(k) == DayForm(k).ending_shift_location = "yes"

\* The time of the form is a well-formed "HH:MM".
TimeReadable(k) ==
    LET t == DayForm(k).sleeper_berth_time IN
    /\ t.kind = "text"
    /\ Len(t.parts) = 2
    /\ ~IsNaN(t.parts[1]) /\ ~IsNaN(t.parts[2])

OverrideTime(k) ==
    LET t == DayForm(k).sleeper_berth_time IN
    t.parts[1] * HourSecs + t.parts[2] * MinSecs

AllOff == [st \in Statuses |-> IF st = "OFF" THEN DaySecs ELSE 0]
AllSB == [st \in Statuses |-> IF st = "SB" THEN DaySecs ELSE 0]

\* C1: the four totals of every day sum to exactly 24 hours.
PartitionCompleteness ==
    \A k \in Days : totalHoursSum(totalsByStatus[k]) = DaySecs

\* C2: a day with no input segments has the totals OFF = 24, SB = D = ON = 0.
EmptyDayAllOff ==
    \A k \in Days : plan.logs[k].segments = <<>> => totalsByStatus[k] = AllOff

\* C3: with the override active at time t, nothing but the SB filler is
\* counted at or after t, nothing counted starts at or after t, the counted
\* intervals reach t, and the SB filler is exactly [t, 24); one D[7,15) segment
\* with t = 20 gives OFF[0,7) D[7,15) OFF[15,20) SB[20,24).
SleeperBerthTruncation ==
    \A k \in Days :
        (OverrideChosen(k) /\ TimeReadable(k)) =>
            LET t == OverrideTime(k)
                n == normalized[k]
                filler == Part("SB", t, DaySecs)
                kept == {j \in 1..Len(n) : ~(j = Len(n) /\ n[j] = filler)}
            IN  /\ \A j \in kept : n[j].from < t /\ n[j].to <= t
                /\ t > 0 => \E j \in kept : n[j].to = t
                /\ t < DaySecs => (n # <<>> /\ n[Len(n)] = filler)
                /\ totalsByStatus[k]["OFF"] + totalsByStatus[k]["D"]
                      + totalsByStatus[k]["ON"]
                      = LET others == {j \in kept : n[j].status # "SB"}
                            RECURSIVE Total(_)
                            Total(S) == IF S = {} THEN 0
                                        ELSE LET j == CHOOSE x \in S : TRUE
                                             IN  n[j].to - n[j].from + Total(S \ {j})
                        IN  Total(others)
                /\ (plan.logs[k].segments = <<Seg("D", Iso(7, 0), Iso(15, 0))>>
                      /\ t = Hours(20)) =>
                        n = <<Part("OFF", 0, Hours(7)), Part("D", Hours(7), Hours(15)),
                              Part("OFF", Hours(15), Hours(20)),
                              Part("SB", Hours(20), Hours(24))>>

\* C4: with the override active at 00:00 the whole day is SB.
MidnightOverrideAllSB ==
    \A k \in Days :
        (OverrideChosen(k) /\ DayForm(k).sleeper_berth_time = TimeText(<<0, 0>>)) =>
            totalsByStatus[k] = AllSB

\* C5: when the override is chosen and its time is absent, empty or
\* unparsable, the totals are those of the same day with the time 00:00, and
\* they are numbers.
MissingTimeIsMidnight ==
    \A k \in Days :
        (OverrideChosen(k) /\ ~TimeReadable(k)) =>
            /\ totalsByStatus[k] =
                  ComputeTotals(plan.logs[k],
                                [DayForm(k) EXCEPT
                                    !.sleeper_berth_time = TimeText(<<0, 0>>)]).totals
            /\ \A st \in Statuses : ~IsNaN(totalsByStatus[k][st])

\* The clamped extent of an input segment, and the hours it covers.
ClampDay(x) == IF x < 0 THEN 0 ELSE IF x > DaySecs THEN DaySecs ELSE x
SegStart(seg) == ClampDay(isoToHoursSinceMidnight(seg.start_iso))
SegEnd(seg) == ClampDay(isoToHoursSinceMidnight(seg.end_iso))
SegLength(seg) == IF SegEnd(seg) > SegStart(seg) THEN SegEnd(seg) - SegStart(seg) ELSE 0

Overlapping(a, b) ==
    /\ SegLength(a) > 0 /\ SegLength(b) > 0
    /\ SegStart(a) < SegEnd(b) /\ SegStart(b) < SegEnd(a)

NoOverlap(segs) ==
    \A i, j \in 1..Len(segs) : i # j => ~Overlapping(segs[i], segs[j])

RECURSIVE StatusLength(_, _, _)
StatusLength(segs, st, k) ==
    IF k = 0 THEN 0
    ELSE StatusLength(segs, st, k - 1)
         + (IF segs[k].status = st THEN SegLength(segs[k]) ELSE 0)

\* C6: without override and without overlapping segments, SB, D and ON are
\* the summed lengths of their segments and OFF is the rest of the day, in
\* whatever order the segments are listed; the scenario day has
\* OFF = 16.5, SB = 0, D = 6.5, ON = 1.
NonOverlappingTotals ==
    \A k \in Days :
        LET segs == plan.logs[k].segments
            len(st) == StatusLength(segs, st, Len(segs))
        IN  (~OverrideChosen(k) /\ NoOverlap(segs)) =>
                /\ \A st \in {"SB", "D", "ON"} : totalsByStatus[k][st] = len(st)
                /\ totalsByStatus[k]["OFF"] =
                      DaySecs - len("SB") - len("D") - len("ON")
                /\ segs = ScenarioDay =>
                      totalsByStatus[k] =
                          [st \in Statuses |->
                              CASE st = "OFF" -> Hours(16) + 30 * MinSecs
                                [] st = "SB" -> 0
                                [] st = "D" -> Hours(6) + 30 * MinSecs
                                [] OTHER -> Hours(1)]

(***************************************************************************)
(* Properties of the recap values (RecapSpec).                             *)
(***************************************************************************)
\* The day indices of the trip, as the code counts them.
DayIndices == 0..(Len(hoursByDay) - 1)

\* The first day of a window of w + 1 days that ends with day i.
WindowStart(i, w) == IF i - w > 0 THEN i - w ELSE 0

\* The sum of the hours of the days lo..hi of the trip.
RECURSIVE WindowSum(_, _, _)
WindowSum(hours, lo, hi) ==
    IF lo > hi THEN 0 ELSE Add(hours[lo + 1], WindowSum(hours, lo + 1, hi))

\* C7: for every day index i the recap holds the sums of the last 7, 8, 5 and
\* 7 days, clipped at day 0, and the hours of day i; for i = 0 all four sums
\* are the hours of day 0; eight days of 8 hours give, for i = 7,
\* seventyA = 56, seventyB = 14 and seventyC = 64.
RecapWindows ==
    \A i \in DayIndices :
        LET r == recapValues[i + 1] IN
        /\ r.seventyA = WindowSum(hoursByDay, WindowStart(i, 6), i)
        /\ r.seventyC = WindowSum(hoursByDay, WindowStart(i, 7), i)
        /\ r.sixtyA = WindowSum(hoursByDay, WindowStart(i, 4), i)
        /\ r.sixtyC = WindowSum(hoursByDay, WindowStart(i, 6), i)
        /\ r.onDutyToday = hoursByDay[i + 1]
        /\ i = 0 => {r.seventyA, r.seventyC, r.sixtyA, r.sixtyC} = {hoursByDay[1]}
        /\ (i = 7 /\ \A d \in 1..8 : hoursByDay[d] = Hours(8)) =>
              /\ r.seventyA = Hours(56)
              /\ r.seventyB = Hours(14)
              /\ r.seventyC = Hours(64)

EightDaysOfEight ==
    /\ Len(hoursByDay) = 8
    /\ \A d \in 1..8 : hoursByDay[d] = Hours(8)
    /\ recapValues[8].seventyC = Hours(64)

\* max(0, limit - a) of numbers.
Remaining(limit, a) == IF limit - a > 0 THEN limit - a ELSE 0

\* C8: seventyB = max(0, 70 - seventyA) and sixtyB = max(0, 60 - sixtyA), so a
\* B value is 0, not negative, when A exceeds the limit (a B value computed
\* from a NaN sum is NaN, as Math.max gives).
BFormula ==
    \A i \in DayIndices :
        LET r == recapValues[i + 1] IN
        /\ IF IsNaN(r.seventyA) THEN IsNaN(r.seventyB)
           ELSE r.seventyB = Remaining(Hours(70), r.seventyA) /\ r.seventyB >= 0
        /\ IF IsNaN(r.sixtyA) THEN IsNaN(r.sixtyB)
           ELSE r.sixtyB = Remaining(Hours(60), r.sixtyA) /\ r.sixtyB >= 0

OverTheLimit ==
    \E i \in DayIndices :
        /\ ~IsNaN(recapValues[i + 1].seventyA)
        /\ recapValues[i + 1].seventyA > Hours(70)
        /\ recapValues[i + 1].seventyB = 0
        /\ recapValues[i + 1].sixtyA > Hours(60)
        /\ recapValues[i + 1].sixtyB = 0

RecapFields ==
    {"onDutyToday", "seventyA", "seventyB", "seventyC", "sixtyA", "sixtyB", "sixtyC"}

\* C9: all seven recap values of every day are >= 0.
RecapNonNegative ==
    \A i \in DayIndices : \A f \in RecapFields : Ge(recapValues[i + 1][f], 0)

\* Other hours a day could have.
OtherHours == {0, Hours(5), NaN}

\* C10: the recap of day i is the same when a day after i or a day more than
\* 7 days before i has other hours, when the days after i are missing, when
\* more days follow, and when the trip starts with the first day of the
\* 8-day window.
RecapOfWindowOnly ==
    \A i \in DayIndices :
        LET r == recapValues[i + 1]
            first == WindowStart(i, 7)
        IN  /\ \A j \in DayIndices : \A v \in OtherHours :
                  (j > i \/ j < i - 7) =>
                      getRecapForDay([hoursByDay EXCEPT ![j + 1] = v], i) = r
            /\ getRecapForDay(SubSeq(hoursByDay, 1, i + 1), i) = r
            /\ \A v \in OtherHours : getRecapForDay(Append(hoursByDay, v), i) = r
            /\ getRecapForDay(SubSeq(hoursByDay, first + 1, i + 1), i - first) = r

DayBeforeTheWindow ==
    /\ Len(hoursByDay) >= 9
    /\ hoursByDay[1] # 0
    /\ recapValues[9].seventyC = WindowSum(hoursByDay, 1, 8)
    /\ recapValues[1].seventyC = hoursByDay[1]

(***************************************************************************)
(* Properties that relate the page and the sheet.                          *)
(***************************************************************************)
\* The driving-plus-on-duty figure the sheet of day k shows.
SheetOnDuty(k) == Add(totalsByStatus[k]["D"], totalsByStatus[k]["ON"])

\* C11: for every day the on-duty hours given to the recap, and reported as
\* onDutyToday, are the D + ON total of the day's sheet.
OnDutyMatchesSheet ==
    \A k \in Days :
        /\ hoursByDay[k] = SheetOnDuty(k)
        /\ recapValues[k].onDutyToday = SheetOnDuty(k)

(***************************************************************************)
(* Properties of the apportioned mileage (TripSpec).                       *)
(***************************************************************************)
\* The driving hours of day k and of the whole trip.
DrivingHoursOfDay(k) == getDrivingHours(plan.logs[k].segments)

RECURSIVE SumDrivingHours(_)
SumDrivingHours(k) ==
    IF k = 0 THEN 0 ELSE Add(DrivingHoursOfDay(k), SumDrivingHours(k - 1))

TripDrivingHours == SumDrivingHours(Len(plan.logs))

TripMiles == (plan.distance_m * 100) \div CentimetresPerMile

RECURSIVE Gcd(_, _)
Gcd(a, b) == IF b = 0 THEN a ELSE Gcd(b, a % b)

Abs(x) == IF x < 0 THEN 0 - x ELSE x

\* A fraction in lowest terms with a positive denominator.
Reduced(num, den) ==
    LET g == Gcd(Abs(num), Abs(den))
        sign == IF den < 0 THEN 0 - 1 ELSE 1
    IN  Miles(sign * (num \div g), sign * (den \div g))

\* totalMiles * drivingHours[k] / sum(drivingHours), NaN when an operand is.
ProportionalMiles(k) ==
    IF IsNaN(DrivingHoursOfDay(k)) \/ IsNaN(TripDrivingHours) THEN Miles(NaN, 1)
    ELSE Reduced(TripMiles * DrivingHoursOfDay(k), TripDrivingHours)

RECURSIVE SumMilesNum(_)
SumMilesNum(k) == IF k = 0 THEN 0 ELSE perDayMiles[k].num + SumMilesNum(k - 1)

\* C12: unless the driving hours of the trip sum to zero, the mileage of
\* every day is totalMiles * drivingHours[day] / sum(drivingHours); when the
\* sum is greater than 0 the mileages of the days sum to totalMiles.
MileageProportional ==
    /\ TripDrivingHours # 0 =>
          \A k \in Days :
              Reduced(perDayMiles[k].num, perDayMiles[k].den) = ProportionalMiles(k)
    /\ Gt(TripDrivingHours, 0) =>
          /\ \A k \in Days : perDayMiles[k].den = TripDrivingHours
          /\ SumMilesNum(Len(plan.logs)) = TripMiles * TripDrivingHours

\* C13: when the driving hours of the trip sum to zero every day gets the
\* whole totalMiles, and no mileage is a division by zero.
ZeroDrivingFullMiles ==
    /\ TripDrivingHours = 0 =>
          \A k \in Days :
              /\ perDayMiles[k] = Miles(TripMiles, 1)
              /\ milesText[k] = 10 * TripMiles
    /\ \A k \in Days : perDayMiles[k].den # 0

RestingTrip ==
    /\ Len(plan.logs) >= 2
    /\ TripDrivingHours = 0
    /\ TripMiles = 300
    /\ \A k \in Days : milesText[k] = 3000

(***************************************************************************)
(* Properties of the reading of timestamps (TripSpec).                     *)
(***************************************************************************)
\* The same timestamp and the same trip written without UTC offsets.
WithoutOffset(iso) == [iso EXCEPT !.off = 0]

SegmentsWithoutOffset(segments) ==
    [j \in 1..Len(segments) |->
        Seg(segments[j].status, WithoutOffset(segments[j].start_iso),
            WithoutOffset(segments[j].end_iso))]

PlanWithoutOffset ==
    [plan EXCEPT !.logs =
        [k \in 1..Len(plan.logs) |->
            [plan.logs[k] EXCEPT !.segments = SegmentsWithoutOffset(@)]]]

HoursWithoutOffset ==
    [k \in 1..Len(plan.logs) |->
        getDrivingPlusOnDutyHours(PlanWithoutOffset.logs[k].segments)]

\* C14: the totals, the on-duty hours, the recap values and the mileage of
\* every day are those of the trip with the same wall-clock fields and no
\* offsets.
OffsetsIgnored ==
    \A k \in Days :
        /\ totalsByStatus[k] =
              ComputeTotals(PlanWithoutOffset.logs[k], DayForm(k)).totals
        /\ hoursByDay[k] = HoursWithoutOffset[k]
        /\ recapValues[k] = getRecapForDay(HoursWithoutOffset, k - 1)
        /\ perDayMiles[k] =
              perDayMilesOf(PlanWithoutOffset, PlanWithoutOffset.logs[k])

\* C15: with whatever timestamps, unreadable ones included, the totals, the
\* recap values and the mileage of every day are numbers.
UnreadableTimestampsAbsorbed ==
    \A k \in Days :
        /\ \A st \in Statuses : ~IsNaN(totalsByStatus[k][st])
        /\ \A f \in RecapFields : ~IsNaN(recapValues[k][f])
        /\ ~IsNaN(perDayMiles[k].num) /\ ~IsNaN(milesText[k])

InvalidDays == {k \in 1..Len(plan.logs) : ~HasSegments(plan.logs[k])}

\* C17: a plan with a structurally invalid day makes the render fail with a
\* ValidationError that names an invalid day, and nothing else makes it fail.
OnlyValidationErrors ==
    /\ InvalidDays # {} =>
          /\ renderError.name = "ValidationError"
          /\ \E k \in InvalidDays : renderError.date = plan.logs[k].date
    /\ InvalidDays = {} => renderError = NoError

ConnectorOnlyWhereSegmentsMeet ==
    \A k \in Days :
        LET segs == plan.logs[k].segments IN
        \A j \in 1..Len(segs) :
            LET c == drawn[k].connectors[j] IN
            /\ c.drawn =>
                  /\ j > 1
                  /\ isoToHoursSinceMidnight(segs[j - 1].end_iso)
                        = isoToHoursSinceMidnight(segs[j].start_iso)
                  /\ c.at = isoToHoursSinceMidnight(segs[j].start_iso)
                  /\ c.from = segs[j - 1].status /\ c.to = segs[j].status
            /\ (j > 1 /\ isoToHoursSinceMidnight(segs[j - 1].end_iso)
                            # isoToHoursSinceMidnight(segs[j].start_iso)) => ~c.drawn

ScenarioConnectors ==
    /\ plan.loaded
    /\ plan.logs[1].segments = ScenarioDay
    /\ drawn[1].connectors[2] =
          [drawn |-> TRUE, at |-> Hours(8), from |-> "ON", to |-> "D"]
    /\ drawn[1].connectors[4].drawn

\* A position within the grid: its fraction of the width lies in [0,1].
OnGrid(hours) == Ge(hours, 0) /\ Le(hours, DaySecs)

\* C19: every remark start and end and every segment start and end drawn is
\* placed at the fraction hoursSinceMidnight / 24 of the grid width, and that
\* fraction lies in [0,1].
MarksOnGrid ==
    \A k \in Days :
        /\ \A j \in 1..Len(drawn[k].remarks) :
              LET r == drawn[k].remarks[j]
                  ev == plan.logs[k].remark_events[j]
              IN  /\ r.start = isoToHoursSinceMidnight(ev.start_iso)
                  /\ OnGrid(r.start)
                  /\ r.hasEnd => (r.end = isoToHoursSinceMidnight(ev.end_iso)
                                    /\ OnGrid(r.end))
        /\ \A j \in 1..Len(drawn[k].lines) :
              LET l == drawn[k].lines[j] IN
              l.drawn => (OnGrid(l.from) /\ OnGrid(l.to))


AuthSpec == Init /\ [][AuthNext]_vars

(***************************************************************************)
(* The api client: claims.                                                 *)
(***************************************************************************)
\* The requests that the step sends: new ones and retried ones.
SentInStep ==
    {r \in DOMAIN requests' :
        \/ r \notin DOMAIN requests
        \/ requests'[r].sends > requests[r].sends}

\* The login requests that the step resolves.
LoggedInInStep ==
    {r \in DOMAIN requests :
        /\ requests[r].url = "/auth/login/"
        /\ requests[r].state = "sent"
        /\ requests'[r].state = "resolved"}

\* C21: a step that logs in leaves the access token and the refresh token of
\* the response in localStorage, and every request a step sends while an
\* access token is stored, a retried one included, carries the stored token.
StoredTokenIsSent ==
    [][/\ LoggedInInStep # {} =>
             /\ localStorage'[ACCESS_KEY] = AccessToken(issued')
             /\ localStorage'[REFRESH_KEY] = RefreshToken(issued')
       /\ \A r \in SentInStep :
             localStorage'[ACCESS_KEY] # NoToken =>
                requests'[r].Authorization = localStorage'[ACCESS_KEY]]_vars

\* A retried request carries the refreshed token while the default header of
\* the client still holds the token of the login.
RetriedWithStoredToken ==
    \E r \in DOMAIN requests :
        /\ requests[r].sends = 2
        /\ requests[r].state = "sent"
        /\ requests[r].Authorization = localStorage[ACCESS_KEY]
        /\ defaultsAuthorization # NoToken
        /\ defaultsAuthorization # requests[r].Authorization


\* The requests whose promise the step rejects.
RejectedInStep ==
    {r \in DOMAIN requests :
        /\ requests[r].state \in {"sent", "awaiting"}
        /\ requests'[r].state = "rejected"}

\* C22: when a step rejects a request that carried an Authorization header
\* with a 401 (its refresh failed, or it had been retried before), both stored
\* tokens are gone afterwards, the browser was sent to /login unless it was on
\* /login or /register, and the error rejected is the 401.
FailedRefreshLogsOut ==
    [][\A r \in RejectedInStep :
          (hadAuthHeader(requests[r]) /\ requests'[r].error = 401) =>
             /\ localStorage'[ACCESS_KEY] = NoToken
             /\ localStorage'[REFRESH_KEY] = NoToken
             /\ pathname \notin AuthPages => (hrefAssigned' /\ pathname' = "/login")
             /\ pathname \in AuthPages => (~hrefAssigned' /\ pathname' = pathname)
             /\ \/ requests[r].state = "awaiting"
                \/ requests[r]._retry
                \/ localStorage[REFRESH_KEY] = NoToken]_vars

\* A request that had been retried got a second 401 on the planner page.
RetriedRequestLoggedOut ==
    /\ hrefAssigned
    /\ pathname = "/login"
    /\ localStorage = NoTokens
    /\ \E r \in DOMAIN requests :
          /\ requests[r].state = "rejected"
          /\ requests[r].error = 401
          /\ requests[r].sends = 2


\* C23: a step that rejects a request with an error other than 401, or with a
\* 401 although it carried no Authorization header, starts no refresh call,
\* leaves both stored tokens as they were, assigns no location and leaves the
\* request as it was sent; a request without the header never awaits a refresh.
OtherErrorsPassThrough ==
    [][/\ \A r \in RejectedInStep :
             (requests'[r].error # 401 \/ ~hadAuthHeader(requests[r])) =>
                /\ refreshCalls' = refreshCalls
                /\ refreshInFlight' = refreshInFlight
                /\ localStorage' = localStorage
                /\ ~hrefAssigned'
                /\ pathname' = pathname
                /\ requests[r].state = "sent"
                /\ requests'[r]._retry = requests[r]._retry
                /\ requests'[r].sends = requests[r].sends
                /\ requests'[r].Authorization = requests[r].Authorization
       /\ \A r \in DOMAIN requests' :
             requests'[r].Authorization = NoToken =>
                requests'[r].state # "awaiting"]_vars

\* A login request without the header is rejected with a 401 while the tokens
\* of another login stay stored.
UnauthenticatedRejected ==
    \E r \in DOMAIN requests :
        /\ requests[r].state = "rejected"
        /\ requests[r].error = 401
        /\ requests[r].Authorization = NoToken
        /\ localStorage[ACCESS_KEY] # NoToken
        /\ localStorage[REFRESH_KEY] # NoToken


\* The requests that await a refresh.
Awaiting(reqs) == {r \in DOMAIN reqs : reqs[r].state = "awaiting"}

\* C24: at most one refresh call is in flight and every request that awaits
\* a refresh awaits that call; the step in which the call returns an access
\* token sends each of them again with the token just issued.
SingleRefreshInFlight ==
    [][/\ Cardinality(refreshCalls') <= 1
       /\ \A r \in Awaiting(requests') :
             /\ requests'[r].awaits = refreshInFlight'
             /\ requests'[r].awaits \in refreshCalls'
       /\ issued' > issued /\ refreshCalls' # refreshCalls =>
             \A r \in Awaiting(requests) :
                /\ requests'[r].state = "sent"
                /\ requests'[r].sends = requests[r].sends + 1
                /\ requests'[r].Authorization = AccessToken(issued')]_vars

\* Two requests were retried together with the refreshed token.
TwoRetriedAfterOneRefresh ==
    \E r, q \in DOMAIN requests :
        /\ r # q
        /\ requests[r].state = "sent" /\ requests[q].state = "sent"
        /\ requests[r].sends = 2 /\ requests[q].sends = 2
        /\ requests[r].Authorization = AccessToken(issued)
        /\ requests[q].Authorization = AccessToken(issued)
        /\ issued = 2


\* A response arrives: to a request that was sent, or to a refresh call.
Respond ==
    \/ \E r \in 1..MaxRequests :
          \/ resolve(r)
          \/ \E status \in ErrorStatuses : reject(r, status)
          \/ unauthorized(r)
    \/ \E c \in 1..(MaxRequests + 1) :
          \/ refreshThrows(c)
          \/ \E res \in RefreshResponses : refreshAccessToken(c, res)

\* While a call is pending a response arrives in the end: the HTTP adapter
\* settles every call with a response or an error.
AuthFairSpec == AuthSpec /\ WF_vars(Respond)

Pending(r) ==
    r \in DOMAIN requests /\ requests[r].state \in {"sent", "awaiting"}

\* C25: no request is sent more than twice, a second sending is the retry of
\* the 401 handler and is never followed by another refresh, a step that ends
\* a refresh call starts no other one, and again and again every request is
\* settled: resolved, rejected, or dropped with the document that sent it.
RetryTerminates ==
    /\ [](\A r \in DOMAIN requests :
             /\ requests[r].sends <= 2
             /\ requests[r].sends = 2 => requests[r]._retry
             /\ requests[r].state = "awaiting" => requests[r].sends = 1)
    /\ [][refreshCalls' \subseteq refreshCalls \/ refreshCalls \subseteq refreshCalls']_vars
    /\ []<>(\A r \in 1..MaxRequests : ~Pending(r))

\* A request was retried once and then resolved.
RetriedAndResolved ==
    \E r \in DOMAIN requests :
        /\ requests[r].sends = 2
        /\ requests[r].state = "resolved"


\* C26: from logout() to the next login() localStorage holds neither an
\* access token nor a refresh token.
LoggedOutStorageEmpty ==
    loggedOut =>
       /\ localStorage[ACCESS_KEY] = NoToken
       /\ localStorage[REFRESH_KEY] = NoToken

WalkOfDay(d) == ComputeTotals(planResponse.logs[d], DayForm(d))

\* The end of the counted day: the override time when the override is chosen
\* (00:00 when its time cannot be read), or midnight.
WalkLimit(d) ==
    IF OverrideChosen(d)
    THEN IF TimeReadable(d) THEN OverrideTime(d) ELSE 0
    ELSE DaySecs

\* Every timestamp of the inputs is a multiple of half an hour.
SlotSecs == HourSecs \div 2

Slots(limit) == {k \in 0..(DaySecs \div SlotSecs - 1) : (k + 1) * SlotSecs <= limit}

\* The segment as the day counts it: clamped to the day and cut at the limit.
KeptFrom(seg) == ClampDay(isoToHoursSinceMidnight(seg.start_iso))

KeptTo(seg, limit) ==
    LET end == ClampDay(isoToHoursSinceMidnight(seg.end_iso))
    IN  IF end < limit THEN end ELSE limit

SlotCovered(d, k) ==
    \E i \in 1..Len(planResponse.logs[d].segments) :
        LET seg == planResponse.logs[d].segments[i]
        IN  /\ KeptFrom(seg) <= k * SlotSecs
            /\ (k + 1) * SlotSecs <= KeptTo(seg, WalkLimit(d))

UncoveredSecs(d) ==
    SlotSecs * Cardinality({k \in Slots(WalkLimit(d)) : ~SlotCovered(d, k)})

RECURSIVE PartsLength(_, _)
PartsLength(parts, n) ==
    IF n = 0 THEN 0
    ELSE Add(PartsLength(parts, n - 1), Sub(parts[n].to, parts[n].from))

FillerSecs(d) == PartsLength(WalkOfDay(d).fillers, Len(WalkOfDay(d).fillers))

CursorNeverDecreases(d) ==
    LET cursor == WalkOfDay(d).cursor
    IN  \A i \in 1..(Len(cursor) - 1) : cursor[i] <= cursor[i + 1]

\* C28: on every sheet the cursor of the walk never decreases, and the OFF
\* filler the walk adds is exactly the time before the limit (the override
\* time, or midnight) that no kept segment covers.
FillerIsUncoveredTime ==
    renderError = NoError =>
       \A d \in Days :
          /\ CursorNeverDecreases(d)
          /\ FillerSecs(d) = UncoveredSecs(d)


(***************************************************************************)
(* The drawn timeline under the sleeper-berth override: claims.            *)
(***************************************************************************)
\* The override of day d is chosen with a readable time strictly inside the day.
OverrideInsideDay(d) ==
    /\ OverrideChosen(d)
    /\ TimeReadable(d)
    /\ OverrideTime(d) > 0
    /\ OverrideTime(d) < DaySecs

\* C29: on a sheet whose override is active at a time t inside the day, no
\* segment line or point, no connector between segments, no part of the OFF
\* line before the first segment and no end-of-day point, vertical or OFF
\* line is drawn at a time later than t.
NothingDrawnAfterOverride ==
    renderError = NoError =>
       \A d \in Days :
          OverrideInsideDay(d) =>
             LET t == OverrideTime(d)
                 sheet == drawn[d]
             IN  /\ \A j \in DOMAIN sheet.lines :
                       sheet.lines[j].drawn =>
                          (sheet.lines[j].from <= t /\ sheet.lines[j].to <= t)
                 /\ \A j \in DOMAIN sheet.connectors :
                       sheet.connectors[j].drawn => sheet.connectors[j].at <= t
                 /\ sheet.firstOff.drawn => sheet.firstOff.to <= t
                 /\ sheet.endOfDay.drawn =>
                       /\ sheet.endOfDay.at <= t
                       /\ sheet.endOfDay.offLine => sheet.endOfDay.offTo <= t


(***************************************************************************)
(* The recap windows: nesting.                                             *)
(***************************************************************************)
HoursNonNegative == \A d \in 1..Len(hoursByDay) : Ge(hoursByDay[d], 0)

\* C30: when no day of the trip has negative on-duty hours, the recap of
\* every day has sixtyA <= seventyA <= seventyC, sixtyC = seventyA,
\* onDutyToday <= sixtyA and seventyB - sixtyB <= 10 hours.
RecapWindowsNested ==
    HoursNonNegative =>
       \A i \in DayIndices :
          LET r == recapValues[i + 1] IN
          /\ r.sixtyA <= r.seventyA
          /\ r.seventyA <= r.seventyC
          /\ r.sixtyC = r.seventyA
          /\ r.onDutyToday <= r.sixtyA
          /\ r.seventyB - r.sixtyB <= Hours(10)

\* A day whose three windows differ, and a day whose B values differ by 10.
RecapWindowsDiffer ==
    /\ HoursNonNegative
    /\ \E i \in DayIndices :
          LET r == recapValues[i + 1] IN
          /\ r.onDutyToday < r.sixtyA
          /\ r.sixtyA < r.seventyA
          /\ r.seventyA < r.seventyC
    /\ \E i \in DayIndices :
          recapValues[i + 1].seventyB - recapValues[i + 1].sixtyB = Hours(10)

====
